---- MODULE Spec2Model ----
(***************************************************************************)
(* BuffMonster (src/src/main.rs): a plain-text buffer annotated with       *)
(* named, coloured tags over half-open offset ranges.  The model keeps the *)
(* document aggregate (buffer, tags, tagged_ranges, selection), the two    *)
(* files save_to_disk writes, and one action per UI event handled by       *)
(* BuffMonster::update.                                                     *)
(***************************************************************************)
EXTENDS Integers, Sequences, FiniteSets, TLC

VARIABLES buffer, tags, tagged_ranges, settings, selection, disk_json, disk_backup,
          faults, last, frames

vars == <<buffer, tags, tagged_ranges, settings, selection, disk_json, disk_backup,
          faults, last, frames>>

(* ---- bounds ---- *)
MaxLen == 3
MaxRanges == 2
MaxFrames == 4
MaxFaults == 1

(* ---- input alphabets ---- *)
Chars == {"a"}
Colors == {1, 2}
NameInputs == {<<" ">>, <<"x">>, <<" ", "x", " ">>, <<"y">>}
Kinds == {"char", "backspace", "delete", "nokey"}

Welcome == <<"a", "b">>

(* ---- helpers ---- *)
min(a, b) == IF a < b THEN a ELSE b
max(a, b) == IF a > b THEN a ELSE b
abs(v) == IF v < 0 THEN -v ELSE v

RECURSIVE trim_start(_)
trim_start(s) ==
  IF s # <<>> /\ Head(s) = " " THEN trim_start(Tail(s)) ELSE s

RECURSIVE trim_end(_)
trim_end(s) ==
  IF s # <<>> /\ s[Len(s)] = " " THEN trim_end(SubSeq(s, 1, Len(s) - 1)) ELSE s

trim(s) == trim_end(trim_start(s))

(* ---- interval algebra (RangeExt) ---- *)
(* the overlap test with closed ends, which adjacent ranges pass *)
intersects_closed(a, b) == a.start <= b.end /\ b.start <= a.end

intersects(a, b) == a.start < b.end /\ b.start < a.end
(* the overlap of two ranges in place of their hull *)
union_of_overlap(a, b) == [start |-> max(a.start, b.start), end |-> min(a.end, b.end)]

union(a, b) == [start |-> min(a.start, b.start), end |-> max(a.end, b.end)]

TaggedRange(tag_name, range) == [tag_name |-> tag_name, range |-> range]

NoTags == [k \in {} |-> 0]

(* ---- settings ---- *)
DefaultSettings ==
  [dark_mode |-> FALSE, markdown_view_enabled |-> FALSE, mark_as_background |-> FALSE]

SettingsFields == {"dark_mode", "markdown_view_enabled"}

(* ---- persistence ---- *)
Document(buf, tg, trs, st) ==
  [buffer |-> buf, tags |-> tg, tagged_ranges |-> trs, settings |-> st]

(* a file is <<>> when absent and <<content>> when present; the content   *)
(* of buffmonster_state.json is the serialized document and whether       *)
(* serde_json parses it back                                               *)
JsonFile(doc) == [parses |-> TRUE, doc |-> doc]

(* a buffmonster_state.json that a failed write left incomplete *)
Torn == [parses |-> FALSE, doc |-> Document(<<>>, NoTags, <<>>, DefaultSettings)]

(* the outcomes of the two fs::write calls of one save_to_disk: the first  *)
(* can fail leaving backup.txt as it was or truncated, and then the second *)
(* is not reached; the second can fail leaving the json file as it was or *)
(* incomplete                                                              *)
Outcomes == {"ok", "backup_fails", "backup_torn", "json_fails", "json_torn"}

(* the two files after one save_to_disk of doc with outcome io *)
save_to_disk(disk, doc, io) ==
  [backup |-> CASE io = "backup_fails" -> disk.backup
                [] io = "backup_torn" -> << <<>> >>
                [] OTHER -> <<doc.buffer>>,
   json |-> CASE io = "ok" -> <<JsonFile(doc)>>
              [] io = "json_torn" -> <<Torn>>
              [] OTHER -> disk.json]

(* the saves of one handler, in order; a failed save uses up one fault *)
RECURSIVE saves(_, _, _)
saves(disk, docs, ios) ==
  IF docs = <<>> THEN disk
  ELSE saves(save_to_disk(disk, Head(docs), Head(ios)), Tail(docs), Tail(ios))

Failed(ios) == {k \in 1..Len(ios) : ios[k] # "ok"}

IoSeqs(n) == IF faults > 0 THEN [1..n -> Outcomes] ELSE {[k \in 1..n |-> "ok"]}

Save(docs, ios) ==
  /\ faults' = faults - Cardinality(Failed(ios))
  /\ faults' >= 0
  /\ LET disk == saves([json |-> disk_json, backup |-> disk_backup], docs, ios)
     IN /\ disk_json' = disk.json
        /\ disk_backup' = disk.backup

(* ---- Validator ---- *)
(* the retain test with the end bound made strict *)
ValidRange_strict_end(tr, buffer_len) ==
  /\ tr.range.start < buffer_len
  /\ tr.range.end < buffer_len
  /\ tr.range.start < tr.range.end

ValidRange(tr, buffer_len) ==
  /\ tr.range.start < buffer_len
  /\ tr.range.end <= buffer_len
  /\ tr.range.start < tr.range.end

Clamp(tr, buffer_len) ==
  [tr EXCEPT !.range = [start |-> min(tr.range.start, buffer_len),
                        end |-> min(tr.range.end, buffer_len)]]

clean_invalid_ranges(trs, buffer_len) ==
  LET kept == SelectSeq(trs, LAMBDA tr : ValidRange(tr, buffer_len))
  IN [i \in 1..Len(kept) |-> Clamp(kept[i], buffer_len)]

(* the range invariant of the data model: 0 <= start < end <= len(buffer) *)
InBounds(tr, buffer_len) ==
  /\ 0 <= tr.range.start
  /\ tr.range.start < tr.range.end
  /\ tr.range.end <= buffer_len

AllValid(trs, buffer_len) ==
  \A i \in 1..Len(trs) : InBounds(trs[i], buffer_len)

(* a load that finds no usable buffmonster_state.json *)
load_from_disk_fails(json) ==
  [ok |-> FALSE, app |-> Document(<<>>, NoTags, <<>>, DefaultSettings)]

load_from_disk(json) ==
  IF json # <<>> /\ json[1].parses
  THEN [ok |-> TRUE,
        app |-> [json[1].doc EXCEPT !.tagged_ranges =
                   clean_invalid_ranges(@, Len(json[1].doc.buffer))]]
  ELSE [ok |-> FALSE, app |-> Document(<<>>, NoTags, <<>>, DefaultSettings)]

(* ---- TagRegistry ---- *)
insert(tg, name, color) ==
  [k \in DOMAIN tg \cup {name} |-> IF k = name THEN color ELSE tg[k]]

remove(tg, name) == [k \in DOMAIN tg \ {name} |-> tg[k]]

add_tag(tg, name, color) == insert(tg, trim(name), color)

(* ---- RangeSet ---- *)
Hits(trs, tag_name, sel) ==
  {i \in 1..Len(trs) : trs[i].tag_name = tag_name /\ intersects(trs[i].range, sel)}

FirstHit(trs, tag_name, sel) ==
  CHOOSE i \in Hits(trs, tag_name, sel) : \A j \in Hits(trs, tag_name, sel) : i <= j

(* some stored range of the tag already contains the selection *)
Enclosed(trs, tag_name, sel) ==
  \E i \in 1..Len(trs) :
    /\ trs[i].tag_name = tag_name
    /\ trs[i].range.start <= sel.start
    /\ sel.end <= trs[i].range.end

(* apply_tag_to_selection: the new range list and whether the call saved *)
apply_tag_to_selection(trs, tag_name, sel) ==
  IF Hits(trs, tag_name, sel) # {}
  THEN [tagged_ranges |->
          [trs EXCEPT ![FirstHit(trs, tag_name, sel)].range = union(@, sel)],
        saved |-> FALSE]
  ELSE [tagged_ranges |-> Append(trs, TaggedRange(tag_name, sel)),
        saved |-> TRUE]

delete_tagged_range(trs, range) == SelectSeq(trs, LAMBDA t : t # range)

(* delete_tag without the cascade over tagged_ranges *)
delete_tag_ranges_no_cascade(trs, tag_name) == trs

delete_tag_ranges(trs, tag_name) == SelectSeq(trs, LAMBDA tr : tr.tag_name # tag_name)

(* ---- EditReconciler ---- *)
(* egui TextEdit applied to the buffer: the selection [start, end) is the  *)
(* cursor range of the previous frame; caret is cursor_range.primary.index *)
(* after the edit                                                          *)
splice(buf, from, to, text) ==
  SubSeq(buf, 1, from) \o text \o SubSeq(buf, to + 1, Len(buf))

TextEdit(buf, sel, kind, ch) ==
  CASE kind \in {"char", "nokey"} ->
         [changed |-> TRUE, buffer |-> splice(buf, sel.start, sel.end, <<ch>>),
          caret |-> sel.start + 1]
    [] kind = "backspace" ->
         IF sel.start < sel.end
         THEN [changed |-> TRUE, buffer |-> splice(buf, sel.start, sel.end, <<>>),
               caret |-> sel.start]
         ELSE IF sel.start > 0
         THEN [changed |-> TRUE, buffer |-> splice(buf, sel.start - 1, sel.start, <<>>),
               caret |-> sel.start - 1]
         ELSE [changed |-> FALSE, buffer |-> buf, caret |-> sel.start]
    [] kind = "delete" ->
         IF sel.start < sel.end
         THEN [changed |-> TRUE, buffer |-> splice(buf, sel.start, sel.end, <<>>),
               caret |-> sel.start]
         ELSE IF sel.start < Len(buf)
         THEN [changed |-> TRUE, buffer |-> splice(buf, sel.start, sel.start + 1, <<>>),
               caret |-> sel.start]
         ELSE [changed |-> FALSE, buffer |-> buf, caret |-> sel.start]

(* ctx.input(|i| i.keys_down) while the edit is delivered *)
keys_down(kind) ==
  CASE kind = "char" -> {"A"}
    [] kind = "backspace" -> {"Backspace"}
    [] kind = "delete" -> {"Delete"}
    [] kind = "nokey" -> {}

shift_for(kind, selection_len) ==
  LET delete == "Backspace" \in keys_down(kind)
  IN IF keys_down(kind) = {} THEN 0
     ELSE IF selection_len = 0
     THEN (IF delete THEN -1 ELSE 1)
     ELSE (IF delete THEN 0 - selection_len ELSE 0 - (selection_len - 1))

shift_offset(offset, index, shift) ==
  IF offset > index THEN abs(offset + shift) ELSE offset

shift_range(tr, index, shift) ==
  [tr EXCEPT !.range = [start |-> shift_offset(tr.range.start, index, shift),
                        end |-> shift_offset(tr.range.end, index, shift)]]

(* a shift loop that itself removes the ranges it collapses *)
shift_ranges_dropping(trs, index, shift) ==
  SelectSeq([i \in 1..Len(trs) |-> shift_range(trs[i], index, shift)],
            LAMBDA tr : tr.range.start < tr.range.end)

shift_ranges(trs, index, shift) ==
  [i \in 1..Len(trs) |-> shift_range(trs[i], index, shift)]

(* the text-change branch of update as a function of the document and the  *)
(* edit: shifted is the range list between the shift loop and the          *)
(* validator                                                               *)
text_changed(buf, trs, sel, kind, ch) ==
  LET selection_len == sel.end - sel.start
      out == TextEdit(buf, sel, kind, ch)
      shift == shift_for(kind, selection_len)
      shifted == IF keys_down(kind) = {} THEN trs
                 ELSE shift_ranges(trs, out.caret, shift)
  IN [changed |-> out.changed,
      buffer |-> out.buffer,
      selection |-> [start |-> out.caret, end |-> out.caret],
      index |-> out.caret,
      shift |-> shift,
      shifted |-> shifted,
      tagged_ranges |-> clean_invalid_ranges(shifted, Len(out.buffer))]

(* BuffMonster::new: the loaded document, else the default document with  *)
(* the buffer recovered from a non-empty backup.txt                        *)
(* new with the default document as the only fallback *)
new_without_backup(json, backup) ==
  IF load_from_disk(json).ok
  THEN load_from_disk(json).app
  ELSE Document(Welcome, NoTags, <<>>, DefaultSettings)

new(json, backup) ==
  IF load_from_disk(json).ok
  THEN load_from_disk(json).app
  ELSE Document(IF backup # <<>> /\ backup[1] # <<>> THEN backup[1] ELSE Welcome,
                NoTags, <<>>, DefaultSettings)

(* ---- state machine ---- *)
(* one call of update handles one event *)
Frame ==
  /\ frames < MaxFrames
  /\ frames' = frames + 1

Event(op) ==
  [op |-> op, name |-> <<>>, kind |-> "", index |-> 0, shift |-> 0,
   valid_in |-> FALSE, removed |-> 0, io |-> <<>>, enclosed |-> FALSE,
   source |-> ""]

Init ==
  /\ buffer = Welcome
  /\ tags = NoTags
  /\ tagged_ranges = <<>>
  /\ settings = DefaultSettings
  /\ selection = [start |-> 0, end |-> 0]
  /\ disk_json = <<>>
  /\ disk_backup = <<>>
  /\ faults = 0
  /\ last = Event("new")
  /\ frames = 0

(* "Add" button *)
AddTag(name, color) ==
  \E ios \in IoSeqs(1) :
    /\ tags' = add_tag(tags, name, color)
    /\ Save(<<Document(buffer, tags', tagged_ranges, settings)>>, ios)
    /\ last' = [Event("add_tag") EXCEPT !.name = name, !.io = ios]
    /\ UNCHANGED <<buffer, tagged_ranges, settings, selection>>

(* "Add and assign" button *)
AddAndAssign(name, color) ==
  LET ap == apply_tag_to_selection(tagged_ranges, name, selection)
      applied == Document(buffer, tags, ap.tagged_ranges, settings)
      added == [applied EXCEPT !.tags = add_tag(tags, name, color)]
  IN \E ios \in IoSeqs(IF ap.saved THEN 2 ELSE 1) :
       /\ Len(ap.tagged_ranges) <= MaxRanges
       /\ tagged_ranges' = ap.tagged_ranges
       /\ tags' = add_tag(tags, name, color)
       /\ Save(IF ap.saved THEN <<applied, added>> ELSE <<added>>, ios)
       /\ last' = [Event("add_and_assign") EXCEPT !.name = name, !.io = ios,
                     !.enclosed = Enclosed(tagged_ranges, name, selection)]
       /\ UNCHANGED <<buffer, settings, selection>>

(* "Assign to selection" button of an existing tag *)
AssignToSelection(tag) ==
  LET ap == apply_tag_to_selection(tagged_ranges, tag, selection)
  IN \E ios \in IoSeqs(IF ap.saved THEN 1 ELSE 0) :
       /\ tag \in DOMAIN tags
       /\ selection.start < selection.end
       /\ Len(ap.tagged_ranges) <= MaxRanges
       /\ tagged_ranges' = ap.tagged_ranges
       /\ Save(IF ap.saved
               THEN <<Document(buffer, tags, tagged_ranges', settings)>>
               ELSE <<>>, ios)
       /\ last' = [Event("assign") EXCEPT !.name = tag, !.io = ios,
                     !.enclosed = Enclosed(tagged_ranges, tag, selection)]
       /\ UNCHANGED <<buffer, tags, settings, selection>>

(* colour picker of an existing tag *)
SetColor(tag, color) ==
  /\ tag \in DOMAIN tags
  /\ color # tags[tag]
  /\ tags' = [tags EXCEPT ![tag] = color]
  /\ last' = [Event("set_color") EXCEPT !.name = tag]
  /\ UNCHANGED <<buffer, tagged_ranges, settings, selection, disk_json, disk_backup,
                 faults>>

(* trash button of an existing tag *)
DeleteTag(tag) ==
  \E ios \in IoSeqs(1) :
    /\ tag \in DOMAIN tags
    /\ tags' = remove(tags, tag)
    /\ tagged_ranges' = delete_tag_ranges(tagged_ranges, tag)
    /\ Save(<<Document(buffer, tags', tagged_ranges', settings)>>, ios)
    /\ last' = [Event("delete_tag") EXCEPT !.name = tag, !.io = ios,
                  !.removed = Len(tagged_ranges) - Len(tagged_ranges')]
    /\ UNCHANGED <<buffer, settings, selection>>

(* trash button of an entry of the range list *)
DeleteRange(i) ==
  \E ios \in IoSeqs(1) :
    /\ i \in 1..Len(tagged_ranges)
    /\ tagged_ranges' = delete_tagged_range(tagged_ranges, tagged_ranges[i])
    /\ Save(<<Document(buffer, tags, tagged_ranges', settings)>>, ios)
    /\ last' = [Event("delete_range") EXCEPT !.index = i, !.io = ios,
                  !.removed = Len(tagged_ranges) - Len(tagged_ranges')]
    /\ UNCHANGED <<buffer, tags, settings, selection>>

(* egui_dnd show_vec: the entry dragged from position from is dropped at   *)
(* position to of the range list                                           *)
shift_vec(trs, from, to) ==
  LET rest == SubSeq(trs, 1, from - 1) \o SubSeq(trs, from + 1, Len(trs))
  IN SubSeq(rest, 1, to - 1) \o <<trs[from]>> \o SubSeq(rest, to, Len(rest))

Reorder(from, to) ==
  /\ from \in 1..Len(tagged_ranges)
  /\ to \in 1..Len(tagged_ranges)
  /\ tagged_ranges' = shift_vec(tagged_ranges, from, to)
  /\ tagged_ranges' # tagged_ranges
  /\ last' = Event("reorder")
  /\ UNCHANGED <<buffer, tags, settings, selection, disk_json, disk_backup, faults>>

(* theme button and markdown view button *)
Toggle(field) ==
  \E ios \in IoSeqs(1) :
    /\ settings' = [settings EXCEPT ![field] = ~@]
    /\ Save(<<Document(buffer, tags, tagged_ranges, settings')>>, ios)
    /\ last' = [Event("toggle") EXCEPT !.io = ios]
    /\ UNCHANGED <<buffer, tags, tagged_ranges, selection>>

(* a frame in which only the cursor moved *)
MoveCursor(start, end) ==
  /\ start <= end
  /\ end <= Len(buffer)
  /\ selection' = [start |-> start, end |-> end]
  /\ selection' # selection
  /\ last' = Event("move_cursor")
  /\ UNCHANGED <<buffer, tags, tagged_ranges, settings, disk_json, disk_backup,
                 faults>>

(* a frame in which the text edit reports a change *)
TextChange(kind, ch) ==
  LET r == text_changed(buffer, tagged_ranges, selection, kind, ch)
  IN \E ios \in IoSeqs(1) :
       /\ r.changed
       /\ Len(r.buffer) <= MaxLen
       /\ buffer' = r.buffer
       /\ selection' = r.selection
       /\ tagged_ranges' = r.tagged_ranges
       /\ Save(<<Document(buffer', tags, tagged_ranges', settings)>>, ios)
       /\ last' = [Event("text") EXCEPT !.kind = kind, !.index = r.index,
                     !.shift = r.shift, !.io = ios,
                     !.valid_in = AllValid(r.shifted, Len(r.buffer)),
                     !.removed = Len(r.shifted) - Len(r.tagged_ranges)]
       /\ UNCHANGED <<tags, settings>>

(* the program is closed and started again *)
Restart ==
  LET app == new(disk_json, disk_backup)
      loaded == load_from_disk(disk_json).ok
  IN /\ buffer' = app.buffer
     /\ tags' = app.tags
     /\ tagged_ranges' = app.tagged_ranges
     /\ settings' = app.settings
     /\ selection' = [start |-> 0, end |-> 0]
     /\ last' = [Event("new") EXCEPT
                   !.source = IF loaded THEN "json"
                              ELSE IF app.buffer # Welcome THEN "backup"
                              ELSE "default",
                   !.valid_in = loaded /\ AllValid(disk_json[1].doc.tagged_ranges,
                                                    Len(disk_json[1].doc.buffer)),
                   !.removed = IF loaded
                               THEN Len(disk_json[1].doc.tagged_ranges)
                                    - Len(app.tagged_ranges)
                               ELSE 0]
     /\ UNCHANGED <<disk_json, disk_backup, faults>>

Next ==
  \/ \E name \in NameInputs, color \in Colors : Frame /\ AddTag(name, color)
  \/ \E name \in NameInputs, color \in Colors : Frame /\ AddAndAssign(name, color)
  \/ \E tag \in DOMAIN tags : Frame /\ AssignToSelection(tag)
  \/ \E tag \in DOMAIN tags, color \in Colors : Frame /\ SetColor(tag, color)
  \/ \E tag \in DOMAIN tags : Frame /\ DeleteTag(tag)
  \/ \E i \in 1..MaxRanges : Frame /\ DeleteRange(i)
  \/ \E from \in 1..MaxRanges, to \in 1..MaxRanges : Frame /\ Reorder(from, to)
  \/ \E start \in 0..MaxLen, end \in 0..MaxLen : Frame /\ MoveCursor(start, end)
  \/ \E kind \in Kinds, ch \in Chars : Frame /\ TextChange(kind, ch)
  \/ Frame /\ Restart

Spec == Init /\ [][Next]_vars

(* ---- a start on a document saved by an earlier session ---- *)
X == <<"x">>
Y == <<"y">>
BothTags == [k \in {X, Y} |-> IF k = X THEN 1 ELSE 2]
Fill(n) == [i \in 1..n |-> "a"]

SeqsUpTo(S, n) == UNION {[1..k -> S] : k \in 0..n}

(* buffmonster_state.json holds any ranges when the program is started;  *)
(* the tags alternate along the list                                       *)
StoredIntervals ==
  {r \in [start : 0..(MaxLen + 1), end : 0..(MaxLen + 1)] : r.start <= r.end + 1}

StoredRanges(intervals) ==
  [i \in 1..Len(intervals) |->
     TaggedRange(IF i % 2 = 1 THEN X ELSE Y, intervals[i])]

InitLoad ==
  /\ buffer = Welcome
  /\ tags = NoTags
  /\ tagged_ranges = <<>>
  /\ settings = DefaultSettings
  /\ selection = [start |-> 0, end |-> 0]
  /\ \E n \in 0..MaxLen, intervals \in SeqsUpTo(StoredIntervals, MaxRanges) :
        disk_json = <<JsonFile(Document(Fill(n), BothTags, StoredRanges(intervals),
                                        DefaultSettings))>>
  /\ disk_backup = <<disk_json[1].doc.buffer>>
  /\ faults = 0
  /\ last = Event("stored")
  /\ frames = 0

(* the start on the stored document, then one text change *)
NextLoad ==
  \/ last.op = "stored" /\ Frame /\ Restart
  \/ \E kind \in Kinds, ch \in Chars :
        last.op = "new" /\ Frame /\ TextChange(kind, ch)

SpecLoad == InitLoad /\ [][NextLoad]_vars

(* a session on a buffer of MaxLen characters that only tags selections *)
InitApply ==
  /\ buffer = Fill(MaxLen)
  /\ tags = NoTags
  /\ tagged_ranges = <<>>
  /\ settings = DefaultSettings
  /\ selection = [start |-> 0, end |-> 0]
  /\ disk_json = <<JsonFile(Document(buffer, tags, tagged_ranges, settings))>>
  /\ disk_backup = <<buffer>>
  /\ faults = 0
  /\ last = Event("new")
  /\ frames = 0

NextApply ==
  \/ \E start \in 0..MaxLen, end \in 0..MaxLen :
        MoveCursor(start, end) /\ UNCHANGED frames
  \/ \E tag \in DOMAIN tags : AssignToSelection(tag) /\ UNCHANGED frames
  \/ \E name \in {X, Y} : AddAndAssign(name, 1) /\ UNCHANGED frames

SpecApply == InitApply /\ [][NextApply]_vars

(* ---- a session in which up to MaxFaults saves fail ---- *)
InitDisk ==
  /\ buffer = Welcome
  /\ tags = NoTags
  /\ tagged_ranges = <<>>
  /\ settings = DefaultSettings
  /\ selection = [start |-> 0, end |-> 0]
  /\ disk_json = <<>>
  /\ disk_backup = <<>>
  /\ faults = MaxFaults
  /\ last = Event("new")
  /\ frames = 0

NextDisk ==
  \/ \E kind \in {"char", "backspace"} : Frame /\ TextChange(kind, "a")
  \/ Frame /\ AddAndAssign(X, 1)
  \/ \E field \in SettingsFields : Frame /\ Toggle(field)
  \/ \E start \in 0..MaxLen, end \in 0..MaxLen : Frame /\ MoveCursor(start, end)
  \/ Frame /\ Restart

SpecDisk == InitDisk /\ [][NextDisk]_vars

(* ---- RangeExt::union on drawn ranges ---- *)
(* a stored range is any pair of offsets a json file can hold, a          *)
(* selection is a sorted pair                                              *)
InitUnion ==
  /\ buffer = Fill(MaxLen)
  /\ tags = BothTags
  /\ \E a \in [start : 0..MaxLen, end : 0..MaxLen] :
        tagged_ranges = <<TaggedRange(X, a)>>
  /\ settings = DefaultSettings
  /\ \E b \in [start : 0..MaxLen, end : 0..MaxLen] :
        /\ b.start <= b.end
        /\ selection = b
  /\ disk_json = <<>>
  /\ disk_backup = <<>>
  /\ faults = 0
  /\ last = Event("drawn")
  /\ frames = 0

(* tr.range.union(&selection), kept as a second entry beside tr *)
Union ==
  /\ last.op = "drawn"
  /\ tagged_ranges' = Append(tagged_ranges,
                             TaggedRange(X, union(tagged_ranges[1].range, selection)))
  /\ last' = Event("union")
  /\ UNCHANGED <<buffer, tags, settings, selection, disk_json, disk_backup, faults,
                 frames>>

SpecUnion == InitUnion /\ [][Union]_vars

(* ---- properties ---- *)
Present(trs, tr) == \E j \in 1..Len(trs) : trs[j] = tr

TypedChar ==
  /\ last'.op = "text"
  /\ last'.kind = "char"

(* C1: after any operation every stored range has start < end and         *)
(* end <= len(buffer)                                                      *)
C1_RangeInvariant ==
  \A i \in 1..Len(tagged_ranges) :
    /\ tagged_ranges[i].range.start < tagged_ranges[i].range.end
    /\ tagged_ranges[i].range.end <= Len(buffer)

(* C2: a character typed with no selection at a caret c inside a stored   *)
(* range (start <= c < end) leaves the start and grows the end by 1       *)
C2_CaretInsideGrows ==
  [][(TypedChar /\ selection.start = selection.end) =>
       \A i \in 1..Len(tagged_ranges) :
         LET tr == tagged_ranges[i]
         IN (tr.range.start <= selection.start /\ selection.start < tr.range.end) =>
              Present(tagged_ranges',
                      TaggedRange(tr.tag_name, [start |-> tr.range.start,
                                                end |-> tr.range.end + 1]))]_vars

(* C3: typing one character at a caret c with no selection and deleting   *)
(* it again with backspace restores every range that starts after c       *)
InsertThenBackspace(ch) ==
  LET ins == text_changed(buffer, tagged_ranges, selection, "char", ch)
  IN text_changed(ins.buffer, ins.tagged_ranges, ins.selection, "backspace", ch)

C3_NetZero ==
  (selection.start = selection.end /\ Len(buffer) < MaxLen) =>
    \A ch \in Chars, i \in 1..Len(tagged_ranges) :
      (InBounds(tagged_ranges[i], Len(buffer))
         /\ tagged_ranges[i].range.start > selection.start) =>
        Present(InsertThenBackspace(ch).tagged_ranges, tagged_ranges[i])

(* C4: an offset the shift loop moves below 0 becomes 0                   *)
ClampedAtZero(offset, index, shift) ==
  (offset > index /\ offset + shift < 0) => shift_offset(offset, index, shift) = 0

C4_ClampAtZero ==
  [][last'.op = "text" =>
       \A i \in 1..Len(tagged_ranges) :
         /\ ClampedAtZero(tagged_ranges[i].range.start, last'.index, last'.shift)
         /\ ClampedAtZero(tagged_ranges[i].range.end, last'.index, last'.shift)]_vars

(* C5: applying a tag to a non-empty selection that some stored range of  *)
(* the same tag encloses leaves the range list unchanged                  *)
Encloses(range, sel) == range.start <= sel.start /\ sel.end <= range.end

C5_ApplyIdempotent ==
  [][(/\ last'.op \in {"assign", "add_and_assign"}
      /\ selection.start < selection.end
      /\ \E i \in 1..Len(tagged_ranges) :
           /\ tagged_ranges[i].tag_name = last'.name
           /\ Encloses(tagged_ranges[i].range, selection)) =>
       tagged_ranges' = tagged_ranges]_vars

(* C6: the validator keeps a range with start < len(buffer) < end and     *)
(* sets its end to len(buffer); it drops a range only if start >= len or  *)
(* start >= end after clamping                                            *)
ClampedEnd(tr, buffer_len) ==
  [tr EXCEPT !.range.end = min(tr.range.end, buffer_len)]

ClampingValidator(trs, buffer_len) ==
  SelectSeq([i \in 1..Len(trs) |-> ClampedEnd(trs[i], buffer_len)],
            LAMBDA tr : tr.range.start < buffer_len /\ tr.range.start < tr.range.end)

LoadsJson == last'.op = "new" /\ load_from_disk(disk_json).ok

C6_ValidatorClamps ==
  [][LoadsJson =>
       tagged_ranges' = ClampingValidator(disk_json[1].doc.tagged_ranges,
                                          Len(disk_json[1].doc.buffer))]_vars

(* C7: the validator leaves a list of valid ranges as it is, after a load *)
(* and after a text change, and running it twice equals running it once   *)
Shifted ==
  text_changed(buffer, tagged_ranges, selection, last'.kind, "a").shifted

CleanTwice(trs, buffer_len) ==
  clean_invalid_ranges(clean_invalid_ranges(trs, buffer_len), buffer_len)

C7_ValidatorIdentity ==
  /\ [][(LoadsJson /\ last'.valid_in) =>
          tagged_ranges' = disk_json[1].doc.tagged_ranges]_vars
  /\ [][(last'.op = "text" /\ last'.valid_in) => tagged_ranges' = Shifted]_vars
  /\ [][LoadsJson =>
          CleanTwice(disk_json[1].doc.tagged_ranges, Len(buffer')) = tagged_ranges']_vars

C7_Witness ==
  /\ last.op = "new"
  /\ last.valid_in
  /\ Len(tagged_ranges) >= 2
  /\ \E i \in 1..Len(tagged_ranges) : tagged_ranges[i].range.end = Len(buffer)

(* C8: create_tag with a name that is already a key of the registry       *)
(* leaves the registry, and so the colour of that tag, unchanged          *)
C8_CreateExistingNoop ==
  [][(last'.op = "add_tag" /\ trim(last'.name) \in DOMAIN tags) =>
       tags' = tags]_vars

(* C9: the registry never holds a tag whose name is the empty string      *)
C9_NoEmptyName == <<>> \notin DOMAIN tags

(* C10: delete_tag(x) removes x and every range tagged x, and leaves the  *)
(* other tags and colours, the other ranges in their order, and the       *)
(* buffer unchanged                                                        *)
C10_DeleteTagCascades ==
  [][last'.op = "delete_tag" =>
       LET x == last'.name
           others == {i \in 1..Len(tagged_ranges) : tagged_ranges[i].tag_name # x}
       IN /\ x \notin DOMAIN tags'
          /\ DOMAIN tags' = DOMAIN tags \ {x}
          /\ \A k \in DOMAIN tags' : tags'[k] = tags[k]
          /\ \A j \in 1..Len(tagged_ranges') : tagged_ranges'[j].tag_name # x
          /\ Len(tagged_ranges') = Cardinality(others)
          /\ \A i \in others :
               tagged_ranges'[Cardinality({k \in others : k <= i})] = tagged_ranges[i]
          /\ buffer' = buffer]_vars

C10_Witness ==
  /\ last.op = "delete_tag"
  /\ last.removed >= 1
  /\ tagged_ranges # <<>>
  /\ DOMAIN tags # {}

(* C11: delete_range of a value that k >= 1 entries of the list equal      *)
(* removes only the first of them: k - 1 equal entries stay and the other *)
(* entries are unchanged                                                   *)
Equal(trs, tr) == {j \in 1..Len(trs) : trs[j] = tr}

RemoveFirst(trs, tr) ==
  LET first == CHOOSE i \in Equal(trs, tr) : \A j \in Equal(trs, tr) : i <= j
  IN SubSeq(trs, 1, first - 1) \o SubSeq(trs, first + 1, Len(trs))

C11_DeleteRangeRemovesOne ==
  [][last'.op = "delete_range" =>
       LET given == tagged_ranges[last'.index]
       IN /\ Cardinality(Equal(tagged_ranges', given))
               = Cardinality(Equal(tagged_ranges, given)) - 1
          /\ tagged_ranges' = RemoveFirst(tagged_ranges, given)]_vars

(* C12: "Assign to selection" and "Add and assign" with an empty          *)
(* selection append no range and modify none                               *)
C12_EmptySelectionNoop ==
  [][(/\ last'.op \in {"assign", "add_and_assign"}
      /\ selection.start = selection.end) =>
       tagged_ranges' = tagged_ranges]_vars

(* C19: the ranges handed to the range list panel, the markdown view and  *)
(* the text colouring are ordered by ascending start                       *)
C19_SnapshotSorted ==
  \A i \in 1..Len(tagged_ranges), j \in 1..Len(tagged_ranges) :
    i < j => tagged_ranges[i].range.start <= tagged_ranges[j].range.start

(* C13: for a non-empty selection that no range of the tag encloses,      *)
(* apply_tag replaces the first range of the tag that overlaps the        *)
(* selection (half-open, adjacent ranges do not overlap) with the hull    *)
(* and changes no other range; with no such range it appends the          *)
(* selection at the end; ranges of other tags stay and the list grows by  *)
(* at most 1                                                               *)
Overlaps(tr, tag_name, sel) ==
  /\ tr.tag_name = tag_name
  /\ tr.range.start < sel.end
  /\ sel.start < tr.range.end

Hull(range, sel) ==
  [start |-> IF range.start <= sel.start THEN range.start ELSE sel.start,
   end |-> IF range.end >= sel.end THEN range.end ELSE sel.end]

Applies ==
  /\ last'.op \in {"assign", "add_and_assign"}
  /\ selection.start < selection.end
  /\ ~last'.enclosed

C14_ApplySaves ==
  [][(/\ last'.op \in {"assign", "add_and_assign"}
      /\ tagged_ranges' # tagged_ranges) =>
       Len(last'.io) = IF last'.op = "assign" THEN 1 ELSE 2]_vars

(* C15: after any event the last attempted save holds the tags and the    *)
(* ranges that are in memory                                               *)
Persisted ==
  /\ disk_json # <<>>
  /\ disk_json[1].doc.tags = tags
  /\ disk_json[1].doc.tagged_ranges = tagged_ranges

C15_EventsPersisted ==
  last.op \in {"text", "add_tag", "add_and_assign", "assign", "set_color",
               "delete_tag", "delete_range"} => Persisted

(* C16: each save attempts both writes whatever the outcome of the other: *)
(* when the backup write fails the json file is still written with the    *)
(* document, when the json write fails the backup is still written, and   *)
(* the document in memory is what the handler made it                     *)
WritesJson == disk_json' = <<JsonFile(Document(buffer', tags', tagged_ranges', settings'))>>

WritesBackup == disk_backup' = <<buffer'>>

C16_IndependentWrites ==
  [][(Len(last'.io) = 1 /\ last'.io[1] # "ok") =>
       /\ last'.io[1] \in {"backup_fails", "backup_torn"} => WritesJson
       /\ last'.io[1] \in {"json_fails", "json_torn"} => WritesBackup]_vars

(* C17 as stated: when the json file is absent or does not parse and      *)
(* backup.txt exists with text T, the loaded document has buffer T, no    *)
(* tags, no ranges and the default settings                               *)
NoJson == disk_json = <<>> \/ ~disk_json[1].parses

StartsFromBackup ==
  /\ last'.op = "new"
  /\ NoJson
  /\ disk_backup # <<>>

C17_BackupRecoveryAnyText ==
  [][StartsFromBackup =>
       /\ buffer' = disk_backup[1]
       /\ tags' = NoTags
       /\ tagged_ranges' = <<>>
       /\ settings' = DefaultSettings]_vars

(* C17 amended: the buffer is T when T is not empty, and the welcome text *)
(* of the default document when T is empty                                 *)
C17_BackupRecovery ==
  [][StartsFromBackup =>
       /\ buffer' = IF disk_backup[1] # <<>> THEN disk_backup[1] ELSE Welcome
       /\ tags' = NoTags
       /\ tagged_ranges' = <<>>
       /\ settings' = DefaultSettings]_vars

(* a start that recovered a text other than the welcome text from         *)
(* backup.txt beside a json file that does not parse                       *)
C17_Witness ==
  /\ last.op = "new"
  /\ last.source = "backup"
  /\ disk_json # <<>>
  /\ ~disk_json[1].parses
  /\ disk_backup = <<buffer>>
  /\ buffer # Welcome

(* C18: when the json file exists and parses, the loaded buffer, tags and *)
(* ranges are those of the json file, the ranges filtered by the          *)
(* validator, whatever backup.txt holds                                    *)
C18_JsonPrecedence ==
  [][(last'.op = "new" /\ disk_json # <<>> /\ disk_json[1].parses) =>
       LET doc == disk_json[1].doc
       IN /\ buffer' = doc.buffer
          /\ tags' = doc.tags
          /\ tagged_ranges' =
               SelectSeq(doc.tagged_ranges, LAMBDA tr : InBounds(tr, Len(doc.buffer)))]_vars

(* a start from a json file beside a backup.txt with another text, after  *)
(* a save that wrote the backup and not the json file                     *)
C18_Witness ==
  /\ last.op = "new"
  /\ last.source = "json"
  /\ faults < MaxFaults
  /\ disk_backup # <<>>
  /\ disk_backup[1] # buffer
  /\ DOMAIN tags # {}

(* C20: union(a, b) = union(b, a), its start is the least of the two      *)
(* starts and its end the greatest of the two ends, so it covers both     *)
(* ranges and any gap between them                                         *)
C20_HullUnion ==
  [][last'.op = "union" =>
       LET a == tagged_ranges[1].range
           b == selection
           u == tagged_ranges'[2].range
       IN /\ u = union(b, a)
          /\ u = Hull(a, b)
          /\ u.start <= a.start /\ u.start <= b.start
          /\ u.start \in {a.start, b.start}
          /\ u.end >= a.end /\ u.end >= b.end
          /\ u.end \in {a.end, b.end}]_vars

(* the union of a range and a selection with a gap between them *)
C20_Witness ==
  /\ last.op = "union"
  /\ tagged_ranges[1].range.start < tagged_ranges[1].range.end
  /\ tagged_ranges[1].range.end < selection.start
  /\ selection.start < selection.end
  /\ tagged_ranges[2].range =
       [start |-> tagged_ranges[1].range.start, end |-> selection.end]

(* C21: a character typed with no selection at a caret equal to the start *)
(* of a stored range leaves the start and grows the end by 1; typed at a  *)
(* caret equal to the end of a range it moves neither boundary            *)
C21_InsertAtBoundary ==
  [][(TypedChar /\ selection.start = selection.end) =>
       \A i \in 1..Len(tagged_ranges) :
         LET tr == tagged_ranges[i]
         IN InBounds(tr, Len(buffer)) =>
              /\ tr.range.start = selection.start =>
                   Present(tagged_ranges',
                           TaggedRange(tr.tag_name, [start |-> tr.range.start,
                                                     end |-> tr.range.end + 1]))
              /\ tr.range.end = selection.start => Present(tagged_ranges', tr)]_vars

(* C22: when a non-empty selection equal to the interval of a stored      *)
(* range is deleted, the range collapses to [s, s) and the validator      *)
(* removes it in the same event; when one typed character replaces the    *)
(* selection, the range becomes [s, s + 1) and is kept                    *)
C22_ReplaceExactRange ==
  [][(last'.op = "text" /\ selection.start < selection.end) =>
       \A i \in 1..Len(tagged_ranges) :
         LET tr == tagged_ranges[i]
             s == selection.start
         IN tr.range = selection =>
              /\ last'.kind \in {"backspace", "delete"} =>
                   /\ Shifted[i].range = [start |-> s, end |-> s]
                   /\ ~\E j \in 1..Len(tagged_ranges') :
                         /\ tagged_ranges'[j].tag_name = tr.tag_name
                         /\ tagged_ranges'[j].range.start = s
              /\ last'.kind = "char" =>
                   /\ Shifted[i].range = [start |-> s, end |-> s + 1]
                   /\ Present(tagged_ranges',
                              TaggedRange(tr.tag_name, [start |-> s, end |-> s + 1]))]_vars

(* C23: the offset correction of a text change only rewrites starts and   *)
(* ends: the corrected list has the entries of the old one in the same    *)
(* order under the same tags, coincident ranges stay separate entries,    *)
(* and the stored list is the corrected list less what the validator      *)
(* rejects                                                                 *)
C23_ReconcileKeepsEntries ==
  [][last'.op = "text" =>
       /\ Len(Shifted) = Len(tagged_ranges)
       /\ \A i \in 1..Len(tagged_ranges) : Shifted[i].tag_name = tagged_ranges[i].tag_name
       /\ tagged_ranges' = SelectSeq(Shifted, LAMBDA tr : InBounds(tr, Len(buffer')))
       /\ Len(tagged_ranges) - Len(tagged_ranges') = last'.removed]_vars

(* a text change after which two ranges on the same interval are both     *)
(* stored                                                                  *)
C23_Witness ==
  /\ last.op = "text"
  /\ last.kind \in {"char", "backspace", "delete"}
  /\ Len(tagged_ranges) >= 2
  /\ tagged_ranges[1].range = tagged_ranges[2].range

(* C24: the tag_name of every stored range is a key of the tag registry   *)
C24_RangesHaveTags ==
  \A i \in 1..Len(tagged_ranges) : tagged_ranges[i].tag_name \in DOMAIN tags

(* C25: the shift a text change applies to the range offsets equals the   *)
(* signed change of the buffer length                                      *)
C25_ShiftIsLengthChange ==
  [][last'.op = "text" => last'.shift = Len(buffer') - Len(buffer)]_vars

====
